---- MODULE Spec2Model ----
(***************************************************************************)
(* Brewing water calculator: the quadratic-programming optimizer           *)
(* (optimizer-qp.ts), its wrapper (optimizer.ts), the additive catalog     *)
(* (salts.ts), the validator, the brewing analysis and the calculator      *)
(* (calculateWaterAdditions), as a state machine over one call at a time.  *)
(*                                                                         *)
(* A JavaScript number is modelled exactly: a rational n/d in lowest terms *)
(* with d > 0, or one of the three non-finite values, written with d = 0:  *)
(* 1/0 = Infinity, -1/0 = -Infinity, 0/0 = NaN.  Floating-point rounding   *)
(* error is not modelled.                                                  *)
(*                                                                         *)
(* The arithmetic operators bind each operand to its value through a      *)
(* one-element set ({f(a) : a \in {x}}), so that an operand is evaluated   *)
(* once however often the operator's body uses it.                         *)
(***************************************************************************)
EXTENDS Integers, Sequences, FiniteSets, TLC

----------------------------------------------------------------------------
(* Numbers *)

Abs(a) == IF a < 0 THEN -a ELSE a

Sgn(a) == IF a > 0 THEN 1 ELSE IF a < 0 THEN -1 ELSE 0

RECURSIVE Gcd(_, _)
Gcd(x, y) ==
  CHOOSE r \in {IF b = 0 THEN a ELSE Gcd(b, a % b) : a \in {x}, b \in {y}} : TRUE

Lcm(x, y) ==
  CHOOSE r \in {(a \div g) * b : a \in {x}, b \in {y}, g \in {Gcd(x, y)}} : TRUE

\* the number n/d, d # 0, in lowest terms with a positive denominator
R(x, y) ==
  CHOOSE r \in
    {[n |-> (IF d < 0 THEN -1 ELSE 1) * (n \div g),
      d |-> (IF d < 0 THEN -1 ELSE 1) * (d \div g)] :
       n \in {x}, d \in {y}, g \in {Gcd(Abs(x), Abs(y))}} : TRUE

Num(n) == [n |-> n, d |-> 1]

Zero == Num(0)

NaN == [n |-> 0, d |-> 0]

Inf(s) == [n |-> s, d |-> 0]

IsFinite(a) == a.d # 0

IsNaN(a) == a.d = 0 /\ a.n = 0

\* sign of a number; NaN has none (0 here, and every comparison guards it)
Sign(a) == Sgn(a.n)

RNeg(x) == CHOOSE r \in {[n |-> -a.n, d |-> a.d] : a \in {x}} : TRUE

FiniteSum(a, b) ==
  CHOOSE r \in {R(a.n * (l \div a.d) + b.n * (l \div b.d), l) :
                  l \in {Lcm(a.d, b.d)}} : TRUE

RAdd(x, y) ==
  CHOOSE r \in
    {IF IsNaN(a) \/ IsNaN(b) THEN NaN
     ELSE IF ~IsFinite(a) /\ ~IsFinite(b) THEN (IF a.n = b.n THEN a ELSE NaN)
     ELSE IF ~IsFinite(a) THEN a
     ELSE IF ~IsFinite(b) THEN b
     ELSE FiniteSum(a, b) : a \in {x}, b \in {y}} : TRUE

RSub(a, b) == RAdd(a, RNeg(b))

FiniteProduct(a, b) ==
  CHOOSE r \in
    {R((a.n \div g1) * (b.n \div g2), (a.d \div g2) * (b.d \div g1)) :
       g1 \in {Gcd(Abs(a.n), b.d)}, g2 \in {Gcd(Abs(b.n), a.d)}} : TRUE

RMul(x, y) ==
  CHOOSE r \in
    {IF IsNaN(a) \/ IsNaN(b) THEN NaN
     ELSE IF ~IsFinite(a) \/ ~IsFinite(b)
          THEN (IF Sign(a) * Sign(b) = 0 THEN NaN ELSE Inf(Sign(a) * Sign(b)))
     ELSE FiniteProduct(a, b) : a \in {x}, b \in {y}} : TRUE

RDiv(x, y) ==
  CHOOSE r \in
    {IF IsNaN(a) \/ IsNaN(b) THEN NaN
     ELSE IF ~IsFinite(a)
          THEN (IF ~IsFinite(b) THEN NaN
                ELSE Inf(Sign(a) * (IF Sign(b) < 0 THEN -1 ELSE 1)))
     ELSE IF ~IsFinite(b) THEN Zero
     ELSE IF b.n = 0 THEN (IF a.n = 0 THEN NaN ELSE Inf(Sign(a)))
     ELSE FiniteProduct(a, R(b.d, b.n)) : a \in {x}, b \in {y}} : TRUE

\* a < b as JavaScript evaluates it: false when either side is NaN
RLt(x, y) ==
  \E a \in {x}, b \in {y} :
     /\ ~IsNaN(a)
     /\ ~IsNaN(b)
     /\ IF ~IsFinite(a) \/ ~IsFinite(b)
        THEN (IF ~IsFinite(a) /\ ~IsFinite(b) THEN a.n < b.n
              ELSE IF ~IsFinite(a) THEN a.n < 0
              ELSE b.n > 0)
        ELSE Sign(RSub(a, b)) < 0

RGt(a, b) == RLt(b, a)

RLe(x, y) == \E a \in {x}, b \in {y} : ~IsNaN(a) /\ ~IsNaN(b) /\ ~RLt(b, a)

RGe(a, b) == RLe(b, a)

RAbs(x) == CHOOSE r \in {IF a.n < 0 THEN RNeg(a) ELSE a : a \in {x}} : TRUE

\* Math.round(x): the nearest integer, halves towards +Infinity
MathRound(x) ==
  CHOOSE r \in {IF ~IsFinite(a) THEN a
                ELSE Num((2 * a.n + a.d) \div (2 * a.d)) : a \in {x}} : TRUE

\* Math.round(x * 10) / 10
RoundTenth(a) == RDiv(MathRound(RMul(a, Num(10))), Num(10))

\* x || 0 on a number: 0 and NaN are falsy
OrZero(x) ==
  CHOOSE r \in {IF IsNaN(a) \/ (IsFinite(a) /\ a.n = 0) THEN Zero ELSE a :
                  a \in {x}} : TRUE

----------------------------------------------------------------------------
(* Additive catalog (salts.ts) *)

\* a decimal literal with one digit after the point, given in tenths
Tenths(t) == R(t, 10)

\* the BREWING_SALTS array literal (name and contributions of each entry)
BrewingSalts ==
  << [name |-> "Gypsum (CaSO4)",
      contributions |-> [Ca |-> Tenths(2328), SO4 |-> Tenths(5579)]],
     [name |-> "Calcium Chloride (CaCl2)",
      contributions |-> [Ca |-> Tenths(2726), Cl |-> Tenths(4823)]],
     [name |-> "Epsom Salt (MgSO4)",
      contributions |-> [Mg |-> Tenths(986), SO4 |-> Tenths(3896)]],
     [name |-> "Table Salt (NaCl)",
      contributions |-> [Na |-> Tenths(3934), Cl |-> Tenths(6066)]],
     [name |-> "Baking Soda (NaHCO3)",
      contributions |-> [Na |-> Tenths(2736), HCO3 |-> Tenths(7264)]] >>

\* Object.fromEntries(table.map(salt => [salt.name, salt])), applied to a name
SALT_BY_NAME(table, name) ==
  table[CHOOSE i \in 1..Len(table) :
          /\ table[i].name = name
          /\ \A k \in (i + 1)..Len(table) : table[k].name # name]

\* the ION_CONTRIBUTIONS object literal, evaluated when the module is loaded
IonContributions(table) ==
  [gypsum |->
     [Ca |-> SALT_BY_NAME(table, "Gypsum (CaSO4)").contributions.Ca,
      SO4 |-> SALT_BY_NAME(table, "Gypsum (CaSO4)").contributions.SO4],
   calciumChloride |->
     [Ca |-> SALT_BY_NAME(table, "Calcium Chloride (CaCl2)").contributions.Ca,
      Cl |-> SALT_BY_NAME(table, "Calcium Chloride (CaCl2)").contributions.Cl],
   epsomSalt |->
     [Mg |-> SALT_BY_NAME(table, "Epsom Salt (MgSO4)").contributions.Mg,
      SO4 |-> SALT_BY_NAME(table, "Epsom Salt (MgSO4)").contributions.SO4],
   tableSalt |->
     [Na |-> SALT_BY_NAME(table, "Table Salt (NaCl)").contributions.Na,
      Cl |-> SALT_BY_NAME(table, "Table Salt (NaCl)").contributions.Cl],
   bakingSoda |->
     [Na |-> SALT_BY_NAME(table, "Baking Soda (NaHCO3)").contributions.Na,
      HCO3 |-> SALT_BY_NAME(table, "Baking Soda (NaHCO3)").contributions.HCO3]]

\* The catalog is module-level state of the process: built once when
\* salts.ts is loaded and read by every call.
VARIABLES
  BREWING_SALTS,     \* the exported array
  ION_CONTRIBUTIONS  \* the exported contribution table

catalog == <<BREWING_SALTS, ION_CONTRIBUTIONS>>

----------------------------------------------------------------------------
(* Problem Builder (optimizer-qp.ts, buildQuadprogMatrices) *)

\* the ion list of buildQuadprogMatrices and of optimizeWithQP
ions == <<"Ca", "Mg", "Na", "SO4", "Cl", "HCO3">>

IonSet == {ions[k] : k \in 1..Len(ions)}

\* the salts array of buildQuadprogMatrices: solver variable k is salts[k]
salts ==
  << [key |-> "gypsum", ions |-> ION_CONTRIBUTIONS.gypsum],
     [key |-> "cacl2", ions |-> ION_CONTRIBUTIONS.calciumChloride],
     [key |-> "epsom", ions |-> ION_CONTRIBUTIONS.epsomSalt],
     [key |-> "nacl", ions |-> ION_CONTRIBUTIONS.tableSalt],
     [key |-> "nahco3", ions |-> ION_CONTRIBUTIONS.bakingSoda] >>

numSalts == Len(salts)

numIons == Len(ions)

\* (salt.ions as any)[ion] || 0
ContributionOf(saltIons, ion) ==
  IF ion \in DOMAIN saltIons THEN OrZero(saltIons[ion]) ELSE Zero

\* the sum of f[k] for k = 1..n, accumulated from 0 in index order
RECURSIVE SumTo(_, _)
SumTo(f, n) == IF n = 0 THEN Zero ELSE RAdd(SumTo(f, n - 1), f[n])

\* NeededOf with the base profile left out of the difference
NeededOf_NoBase(baseProfile, targetProfile) ==
  [k \in 0..numIons |-> IF k = 0 THEN Zero ELSE targetProfile[ions[k]]]

\* NeededOf with the operands of the difference exchanged
NeededOf_Swapped(baseProfile, targetProfile) ==
  [k \in 0..numIons |->
     IF k = 0 THEN Zero
     ELSE RSub(baseProfile[ions[k]], targetProfile[ions[k]])]

\* needed[0] = 0 (unused), needed[k] = target - base on the k-th ion
NeededOf(baseProfile, targetProfile) ==
  [k \in 0..numIons |->
     IF k = 0 THEN Zero
     ELSE RSub(targetProfile[ions[k]], baseProfile[ions[k]])]

\* A[i][j]: contribution of salt j to ion i per litre; row 0 and column 0 are 0
\* ContributionMatrix without the division by the volume
ContributionMatrix_NoVolume(volumeLiters) ==
  [i \in 0..numIons |->
     [j \in 0..numSalts |->
        IF i = 0 \/ j = 0 THEN Zero
        ELSE LET contribution == ContributionOf(salts[j].ions, ions[i])
             IN  IF RGt(contribution, Zero) THEN contribution ELSE Zero]]

ContributionMatrix(volumeLiters) ==
  [i \in 0..numIons |->
     [j \in 0..numSalts |->
        IF i = 0 \/ j = 0 THEN Zero
        ELSE LET contribution == ContributionOf(salts[j].ions, ions[i])
             IN  IF RGt(contribution, Zero)
                 THEN RDiv(contribution, volumeLiters)
                 ELSE Zero]]

\* HessianOf filling only the entries on and above the diagonal
HessianOf_UpperTriangle(A) ==
  [i \in 0..numSalts |->
     [j \in 0..numSalts |->
        IF i = 0 \/ j = 0 \/ j < i THEN Zero
        ELSE RMul(Num(2),
                  SumTo([k \in 1..numIons |-> RMul(A[k][i], A[k][j])], numIons))]]

\* HessianOf without the factor 2
HessianOf_Unscaled(A) ==
  [i \in 0..numSalts |->
     [j \in 0..numSalts |->
        IF i = 0 \/ j = 0 THEN Zero
        ELSE SumTo([k \in 1..numIons |-> RMul(A[k][i], A[k][j])], numIons)]]

\* H = 2 * A^T * A over indices 1..numSalts; row 0 and column 0 are 0
HessianOf(A) ==
  [i \in 0..numSalts |->
     [j \in 0..numSalts |->
        IF i = 0 \/ j = 0 THEN Zero
        ELSE RMul(Num(2),
                  SumTo([k \in 1..numIons |-> RMul(A[k][i], A[k][j])], numIons))]]

\* DvecOf with the sign of the linear term reversed
DvecOf_Negated(A, needed) ==
  [i \in 0..numSalts |->
     IF i = 0 THEN Zero
     ELSE RMul(Num(-2),
               SumTo([k \in 1..numIons |-> RMul(A[k][i], needed[k])], numIons))]

\* dvec = 2 * A^T * needed; dvec[0] = 0
DvecOf(A, needed) ==
  [i \in 0..numSalts |->
     IF i = 0 THEN Zero
     ELSE RMul(Num(2),
               SumTo([k \in 1..numIons |-> RMul(A[k][i], needed[k])], numIons))]

\* Amat: the identity over 1..numSalts (one constraint per salt)
AmatOf ==
  [i \in 0..numSalts |->
     [j \in 0..numSalts |-> IF i = j /\ i >= 1 THEN Num(1) ELSE Zero]]

BvecOf == [i \in 0..numSalts |-> Zero]

buildQuadprogMatrices(volumeLiters, baseProfile, targetProfile) ==
  LET needed == NeededOf(baseProfile, targetProfile)
      A == ContributionMatrix(volumeLiters)
  IN  [H |-> HessianOf(A), dvec |-> DvecOf(A, needed), Amat |-> AmatOf,
       bvec |-> BvecOf, A |-> A, needed |-> needed]

----------------------------------------------------------------------------
(* QP solver (the external quadprog library, declared in quadprog.d.ts) *)

\* Exact integers beyond 32 bits: hi * WBase + lo with 0 <= lo < WBase
WBase == 1000 * 1000

WNorm(x, y) ==
  CHOOSE r \in {[hi |-> hi + (lo \div WBase), lo |-> lo % WBase] :
                  hi \in {x}, lo \in {y}} : TRUE

\* a * b for a small multiplier b
WMul(x, y) ==
  CHOOSE r \in {WNorm((a \div WBase) * b, (a % WBase) * b) :
                  a \in {x}, b \in {y}} : TRUE

WAdd(x, y) ==
  CHOOSE r \in {WNorm(u.hi + v.hi, u.lo + v.lo) : u \in {x}, v \in {y}} : TRUE

WNeg(x) == CHOOSE r \in {WNorm(-u.hi, -u.lo) : u \in {x}} : TRUE

WSign(x) ==
  CHOOSE r \in {IF u.hi > 0 THEN 1 ELSE IF u.hi < 0 THEN -1 ELSE Sgn(u.lo) :
                  u \in {x}} : TRUE

RECURSIVE WSumTo(_, _)
WSumTo(f, n) == IF n = 0 THEN WNorm(0, 0) ELSE WAdd(WSumTo(f, n - 1), f[n])

RECURSIVE LcmTo(_, _)
LcmTo(f, n) == IF n = 0 THEN 1 ELSE Lcm(LcmTo(f, n - 1), f[n])

\* the integer a * l for a number a whose denominator divides l
ScaleTo(a, l) == a.n * (l \div a.d)

\* the resolution at which the solver's answer is taken: 0.01 g
Step == R(1, 100)

AllFinite(H, dvec) ==
  /\ \A i \in 1..numSalts : IsFinite(dvec[i])
  /\ \A i, j \in 1..numSalts : IsFinite(H[i][j])

\* the constraints handed to the solver: Amat^T x >= bvec, column by column
SatisfiesConstraints(Amat, bvec, x) ==
  \A j \in 1..numSalts :
     RGe(SumTo([i \in 1..numSalts |-> RMul(Amat[i][j], x[i])], numSalts), bvec[j])

\* sign of  obj(x + s*Step*e_j) - obj(x)  for the objective
\* 1/2 x^T H x - dvec^T x, that is of  s * (H x - dvec)[j] + Step * H[j][j] / 2
StepEffect(H, dvec, x, j, s) ==
  CHOOSE r \in
    {LET hx == WSumTo([i \in 1..numSalts |->
                         WMul(ScaleTo(H[j][i], l), 2 * ScaleTo(x[i], q))],
                      numSalts)
         g == WAdd(hx, WNeg(WMul(ScaleTo(dvec[j], l), 2 * q)))
         t == WMul(ScaleTo(H[j][j], l), ScaleTo(Step, q))
     IN  WSign(WAdd(IF s > 0 THEN g ELSE WNeg(g), t)) :
       l \in {Lcm(LcmTo([i \in 1..numSalts |-> H[j][i].d], numSalts), dvec[j].d)},
       q \in {Lcm(LcmTo([i \in 1..numSalts |-> x[i].d], numSalts), Step.d)}} : TRUE

StepFrom(x, j, s) ==
  [i \in DOMAIN x |->
     IF i = j THEN RAdd(x[i], IF s > 0 THEN Step ELSE RNeg(Step)) ELSE x[i]]

\* x is what a conforming solver returns for  min 1/2 x^T H x - dvec^T x
\* subject to Amat^T x >= bvec:  x satisfies the constraints and no move of
\* one variable by one Step to a point satisfying them lowers the objective
IsMinimizer(H, dvec, Amat, bvec, x) ==
  /\ AllFinite(H, dvec)
  /\ \A i \in 1..numSalts : IsFinite(x[i])
  /\ SatisfiesConstraints(Amat, bvec, x)
  /\ \A j \in 1..numSalts : \A s \in {-1, 1} :
        SatisfiesConstraints(Amat, bvec, StepFrom(x, j, s))
           => StepEffect(H, dvec, x, j, s) >= 0

\* a solution array as the library lays it out: index 0 unused, 1..5 in grams
Solution(a, b, c, d, e) ==
  [i \in 0..numSalts |->
     CASE i = 0 -> NaN [] i = 1 -> a [] i = 2 -> b [] i = 3 -> c
       [] i = 4 -> d [] i = 5 -> e]

Grams(a, b, c, d, e) ==
  Solution(R(a, 100), R(b, 100), R(c, 100), R(d, 100), R(e, 100))

\* The solution arrays the solver is taken to hand back: the minimizers of
\* the problems built from Volumes and Profiles, and arrays no conforming
\* solve produces (a negative mass, NaN).
SolutionVectors ==
  { Grams(0, 0, 0, 0, 0), Grams(0, 1, 0, 0, 0), Grams(0, 2, 0, 0, 0),
    Grams(0, 4, 0, 0, 0), Grams(3, 32, 0, 0, 0), Grams(7, 64, 0, 0, 0),
    Grams(9, 0, 53, 0, 0), Grams(13, 129, 0, 0, 0), Grams(19, 0, 105, 0, 0),
    Grams(34, 22, 19, 3, 0), Grams(37, 0, 211, 0, 0),
    Grams(69, 45, 37, 5, 0), Grams(137, 90, 76, 10, 0),
    Grams(-50, 20, 0, 0, 0),
    Solution(NaN, NaN, NaN, NaN, NaN) }

\* the diagnostic messages of the library; "" means the solve succeeded
SolverMessages == {"", "constraints are inconsistent, no solution!"}

NoQPResult == [defined |-> FALSE]

QPResult(solution, message) ==
  [defined |-> TRUE, hasSolution |-> TRUE, solution |-> solution,
   message |-> message]

QPResultWithoutSolution(message) ==
  [defined |-> TRUE, hasSolution |-> FALSE, message |-> message]

----------------------------------------------------------------------------
(* Solution Mapper and infeasible fallback (optimizer-qp.ts, optimizeWithQP) *)

\* SolutionIndex reading the solver's array from position 0
SolutionIndex_ZeroBased ==
  [n \in {"Gypsum (CaSO4)", "Calcium Chloride (CaCl2)", "Epsom Salt (MgSO4)",
          "Table Salt (NaCl)", "Baking Soda (NaHCO3)"} |->
     CASE n = "Gypsum (CaSO4)" -> 0
       [] n = "Calcium Chloride (CaCl2)" -> 1
       [] n = "Epsom Salt (MgSO4)" -> 2
       [] n = "Table Salt (NaCl)" -> 3
       [] n = "Baking Soda (NaHCO3)" -> 4]

\* the property names of SaltAdditions with the solver index each is read from
SolutionIndex ==
  [n \in {"Gypsum (CaSO4)", "Calcium Chloride (CaCl2)", "Epsom Salt (MgSO4)",
          "Table Salt (NaCl)", "Baking Soda (NaHCO3)"} |->
     CASE n = "Gypsum (CaSO4)" -> 1
       [] n = "Calcium Chloride (CaCl2)" -> 2
       [] n = "Epsom Salt (MgSO4)" -> 3
       [] n = "Table Salt (NaCl)" -> 4
       [] n = "Baking Soda (NaHCO3)" -> 5]

SaltNames == DOMAIN SolutionIndex

\* saltAdditionsPrecise: result.solution[k] || 0, no rounding and no clamp
PreciseAdditions(solution) ==
  [n \in SaltNames |-> OrZero(solution[SolutionIndex[n]])]

\* saltAdditionsDisplay: Math.round(precise * 10) / 10
DisplayAdditions(precise) == [n \in SaltNames |-> RoundTenth(precise[n])]

\* the salts array of optimizeWithQP, in the order it is applied
mapperSalts ==
  << [name |-> "Gypsum (CaSO4)", ions |-> ION_CONTRIBUTIONS.gypsum],
     [name |-> "Calcium Chloride (CaCl2)", ions |-> ION_CONTRIBUTIONS.calciumChloride],
     [name |-> "Epsom Salt (MgSO4)", ions |-> ION_CONTRIBUTIONS.epsomSalt],
     [name |-> "Table Salt (NaCl)", ions |-> ION_CONTRIBUTIONS.tableSalt],
     [name |-> "Baking Soda (NaHCO3)", ions |-> ION_CONTRIBUTIONS.bakingSoda] >>

\* one pass of salts.forEach: the profile after salt k has been applied
ApplySalt(calculatedProfile, salt, precise, volumeLiters) ==
  CHOOSE r \in
    {IF RGt(amount, Zero)
     THEN [ion \in DOMAIN profile |->
             IF ion \in DOMAIN salt.ions /\ RGt(salt.ions[ion], Zero)
             THEN RAdd(profile[ion],
                       RDiv(RMul(salt.ions[ion], amount), volumeLiters))
             ELSE profile[ion]]
     ELSE profile :
       profile \in {calculatedProfile}, amount \in {precise[salt.name]}} : TRUE

RECURSIVE ApplySalts(_, _, _, _)
ApplySalts(baseProfile, precise, volumeLiters, k) ==
  IF k = 0 THEN baseProfile
  ELSE ApplySalt(ApplySalts(baseProfile, precise, volumeLiters, k - 1),
                 mapperSalts[k], precise, volumeLiters)

CalculatedProfile(baseProfile, precise, volumeLiters) ==
  ApplySalts(baseProfile, precise, volumeLiters, Len(mapperSalts))

\* deviations = calculatedProfile - targetProfile
Deviations(calculatedProfile, targetProfile) ==
  [ion \in IonSet |-> RSub(calculatedProfile[ion], targetProfile[ion])]

\* the value returned at the end of the try block
FeasibleResult(solution, volumeLiters, baseProfile, targetProfile) ==
  LET saltAdditionsPrecise == PreciseAdditions(solution)
      calculatedProfile ==
        CalculatedProfile(baseProfile, saltAdditionsPrecise, volumeLiters)
  IN  [saltAdditions |-> saltAdditionsPrecise,
       saltAdditionsDisplay |-> DisplayAdditions(saltAdditionsPrecise),
       calculatedProfile |-> calculatedProfile,
       deviations |-> Deviations(calculatedProfile, targetProfile),
       feasible |-> TRUE]

emptyAdditions == [n \in SaltNames |-> Zero]

\* InfeasibleResult reporting the deviation as base - target
InfeasibleResult_BaseMinusTarget(baseProfile, targetProfile) ==
  [saltAdditions |-> emptyAdditions,
   saltAdditionsDisplay |-> emptyAdditions,
   calculatedProfile |-> baseProfile,
   deviations |-> [ion \in IonSet |-> RSub(baseProfile[ion], targetProfile[ion])],
   feasible |-> FALSE]

\* the value returned by the catch block
InfeasibleResult(baseProfile, targetProfile) ==
  [saltAdditions |-> emptyAdditions,
   saltAdditionsDisplay |-> emptyAdditions,
   calculatedProfile |-> baseProfile,
   deviations |-> [ion \in IonSet |-> RSub(targetProfile[ion], baseProfile[ion])],
   feasible |-> FALSE]

\* !result || !result.solution
SolverGaveNoSolution(r) == IF r.defined THEN ~r.hasSolution ELSE TRUE

\* `QP solver failed: ${result?.message || 'No solution found'}`
SolverFailedError(r) ==
  "QP solver failed: " \o
     (IF r.defined /\ r.message # "" THEN r.message ELSE "No solution found")

----------------------------------------------------------------------------
(* Display rounding (optimizer.ts, roundSmallAdditions) *)

\* const threshold = 0.1
threshold == R(1, 10)

\* roundSmallAdditions with the rounded value divided by 100 instead of 10
roundSmallAdditions_Div100(saltAdditions) ==
  [n \in DOMAIN saltAdditions |->
     IF RLt(saltAdditions[n], threshold) THEN Zero
     ELSE RDiv(MathRound(RMul(saltAdditions[n], Num(10))), Num(100))]

\* roundSmallAdditions without the threshold branch
roundSmallAdditions_NoThreshold(saltAdditions) ==
  [n \in DOMAIN saltAdditions |-> RoundTenth(saltAdditions[n])]

\* a copy in which each amount below the threshold is 0 and every other is
\* Math.round(amount * 10) / 10
roundSmallAdditions(saltAdditions) ==
  [n \in DOMAIN saltAdditions |->
     IF RLt(saltAdditions[n], threshold) THEN Zero
     ELSE RoundTenth(saltAdditions[n])]

----------------------------------------------------------------------------
(* Input validation (validator.ts) *)

VALIDATION_RANGES ==
  [volume |-> [min |-> R(1, 10), max |-> Num(1000)],
   ions |-> [Ca |-> [min |-> Zero, max |-> Num(1000)],
             Mg |-> [min |-> Zero, max |-> Num(200)],
             Na |-> [min |-> Zero, max |-> Num(500)],
             SO4 |-> [min |-> Zero, max |-> Num(2000)],
             Cl |-> [min |-> Zero, max |-> Num(1000)],
             HCO3 |-> [min |-> Zero, max |-> Num(1000)]]]

\* a range limit as a template literal prints it
NumberText(x) ==
  CASE x = Zero -> "0"
    [] x = R(1, 10) -> "0.1"
    [] x = Num(200) -> "200"
    [] x = Num(500) -> "500"
    [] x = Num(1000) -> "1000"
    [] x = Num(2000) -> "2000"

\* An error message is kept with the field its template names: names is
\* <<"volume">> or <<profileType, ion>>, text is the string pushed.
ErrorOn(names, text) == [names |-> names, text |-> text]

\* the errors validateInputs pushes for the volume
VolumeErrors(volume) ==
  IF ~IsFinite(volume)
  THEN <<ErrorOn(<<"volume">>, "volume" \o " must be a valid number")>>
  ELSE IF RLe(volume, Zero)
  THEN <<ErrorOn(<<"volume">>, "volume" \o " must be positive")>>
  ELSE IF \/ RLt(volume, VALIDATION_RANGES.volume.min)
          \/ RGt(volume, VALIDATION_RANGES.volume.max)
  THEN <<ErrorOn(<<"volume">>,
                 "volume" \o " must be between "
                   \o NumberText(VALIDATION_RANGES.volume.min) \o " and "
                   \o NumberText(VALIDATION_RANGES.volume.max) \o " liters")>>
  ELSE <<>>

requiredIons == <<"Ca", "Mg", "Na", "SO4", "Cl", "HCO3">>

\* one pass of the loop of validateWaterProfile
IonErrors(profile, profileType, ion) ==
  IF ~IsFinite(profile[ion])
  THEN <<ErrorOn(<<profileType, ion>>,
                 profileType \o " profile: " \o ion \o " must be a valid number")>>
  ELSE IF \/ RLt(profile[ion], VALIDATION_RANGES.ions[ion].min)
          \/ RGt(profile[ion], VALIDATION_RANGES.ions[ion].max)
  THEN <<ErrorOn(<<profileType, ion>>,
                 profileType \o " profile: " \o ion \o " must be between "
                   \o NumberText(VALIDATION_RANGES.ions[ion].min) \o " and "
                   \o NumberText(VALIDATION_RANGES.ions[ion].max) \o " ppm")>>
  ELSE <<>>

RECURSIVE ProfileErrorsTo(_, _, _)
ProfileErrorsTo(profile, profileType, k) ==
  IF k = 0 THEN <<>>
  ELSE ProfileErrorsTo(profile, profileType, k - 1)
         \o IonErrors(profile, profileType, requiredIons[k])

validateWaterProfile(profile, profileType) ==
  [valid |-> ProfileErrorsTo(profile, profileType, Len(requiredIons)) = <<>>,
   errors |-> ProfileErrorsTo(profile, profileType, Len(requiredIons))]

\* validateInputs reporting the volume errors only
validateInputs_VolumeOnly(volume, base, target) ==
  [valid |-> VolumeErrors(volume) = <<>>,
   errors |-> VolumeErrors(volume)]

validateInputs(volume, base, target) ==
  [valid |-> /\ VolumeErrors(volume) = <<>>
             /\ validateWaterProfile(base, "base").valid
             /\ validateWaterProfile(target, "target").valid,
   errors |-> VolumeErrors(volume)
                \o validateWaterProfile(base, "base").errors
                \o validateWaterProfile(target, "target").errors]

----------------------------------------------------------------------------
(* Brewing analysis (brewing-analysis.ts) *)

RoundHundredth(a) == RDiv(MathRound(RMul(a, Num(100))), Num(100))

alkalinity(profile) == RMul(profile.HCO3, R(50, 61))

\* profile.Ca / 1.4 + profile.Mg / 1.7
effectiveHardness(profile) ==
  RAdd(RDiv(profile.Ca, R(14, 10)), RDiv(profile.Mg, R(17, 10)))

residualAlkalinity(profile) ==
  RSub(alkalinity(profile), effectiveHardness(profile))

totalHardness(profile) == RAdd(profile.Ca, profile.Mg)

\* profile.Cl > 0 ? profile.SO4 / profile.Cl : null
sulfateChlorideRatio(profile) ==
  IF RGt(profile.Cl, Zero)
  THEN [isNull |-> FALSE, value |-> RDiv(profile.SO4, profile.Cl)]
  ELSE [isNull |-> TRUE, value |-> Zero]

getSulfateChlorideBalance(ratio) ==
  IF ratio.isNull THEN "N/A (No Chloride)"
  ELSE IF RLt(ratio.value, R(4, 10)) THEN "Very Malty"
  ELSE IF RLt(ratio.value, R(6, 10)) THEN "Malty"
  ELSE IF RLt(ratio.value, R(8, 10)) THEN "Slightly Malty"
  ELSE IF RLt(ratio.value, R(12, 10)) THEN "Balanced"
  ELSE IF RLt(ratio.value, Num(2)) THEN "Slightly Bitter"
  ELSE IF RLt(ratio.value, Num(3)) THEN "Bitter"
  ELSE "Very Bitter"

getColorRange(ra) ==
  IF RLt(ra, Zero) THEN "2-8 EBC (Pilsner)"
  ELSE IF RLt(ra, Num(50)) THEN "8-20 EBC (Pale)"
  ELSE IF RLt(ra, Num(100)) THEN "20-35 EBC (Amber)"
  ELSE IF RLt(ra, Num(150)) THEN "35-50 EBC (Brown)"
  ELSE IF RLt(ra, Num(200)) THEN "50-60 EBC (Porter)"
  ELSE IF RLt(ra, Num(250)) THEN "60-70 EBC (Stout)"
  ELSE "50-70 EBC (Porter/Stout)*"

calculateBrewingAnalysis(profile) ==
  [alkalinity |-> RoundTenth(alkalinity(profile)),
   residualAlkalinity |-> RoundTenth(residualAlkalinity(profile)),
   sulfateChlorideRatio |->
     IF sulfateChlorideRatio(profile).isNull
     THEN sulfateChlorideRatio(profile)
     ELSE [isNull |-> FALSE,
           value |-> RoundHundredth(sulfateChlorideRatio(profile).value)],
   sulfateChlorideBalance |->
     getSulfateChlorideBalance(sulfateChlorideRatio(profile)),
   totalHardness |-> RoundTenth(totalHardness(profile)),
   effectiveHardness |-> RoundTenth(effectiveHardness(profile)),
   colorRange |-> getColorRange(residualAlkalinity(profile))]

----------------------------------------------------------------------------
(* Calculator (calculateWaterAdditions) *)

createEmptyAdditions == [n \in SaltNames |-> Zero]

createZeroDeviations == [ion \in IonSet |-> Zero]

\* both failure returns of calculateWaterAdditions
FailureResult(error, base_profile) ==
  [success |-> FALSE,
   error |-> error,
   additions |-> createEmptyAdditions,
   calculated_profile |-> base_profile,
   deviations |-> createZeroDeviations,
   total_salt_weight |-> Zero,
   brewing_analysis |-> calculateBrewingAnalysis(base_profile)]

\* errors.join(', ')
RECURSIVE Join(_, _)
Join(errors, k) ==
  IF k = 0 THEN ""
  ELSE IF k = 1 THEN errors[1].text
  ELSE Join(errors, k - 1) \o ", " \o errors[k].text

ValidationFailure(validation, base_profile) ==
  FailureResult("Input validation failed: "
                  \o Join(validation.errors, Len(validation.errors)),
                base_profile)

\* the catch block of calculateWaterAdditions
CalculationFailure(errorMessage, base_profile) ==
  FailureResult("Calculation error: " \o errorMessage, base_profile)

\* Math.round(x * 10) / 10 on each ion of a profile
RoundProfile(profile) == [ion \in IonSet |-> RoundTenth(profile[ion])]

\* Object.values(displayAdditions).reduce((sum, weight) => sum + weight, 0)
RECURSIVE TotalTo(_, _)
TotalTo(additions, k) ==
  IF k = 0 THEN Zero
  ELSE RAdd(TotalTo(additions, k - 1), additions[mapperSalts[k].name])

\* steps 3 to 7 and the success return
SuccessResult(optimizationResult) ==
  LET displayAdditions ==
        roundSmallAdditions(optimizationResult.saltAdditionsDisplay)
      displayProfile == RoundProfile(optimizationResult.calculatedProfile)
      displayDeviations == RoundProfile(optimizationResult.deviations)
      totalSaltWeight == TotalTo(displayAdditions, Len(mapperSalts))
  IN  [success |-> TRUE,
       additions |-> displayAdditions,
       calculated_profile |-> displayProfile,
       deviations |-> displayDeviations,
       total_salt_weight |-> RoundTenth(totalSaltWeight),
       brewing_analysis |-> calculateBrewingAnalysis(displayProfile)]

----------------------------------------------------------------------------
(* Calls *)

\* the number of calls followed one after another
MaxCalls == 2

Profile(Ca, Mg, Na, SO4, Cl, HCO3) ==
  [Ca |-> Ca, Mg |-> Mg, Na |-> Na, SO4 |-> SO4, Cl |-> Cl, HCO3 |-> HCO3]

\* the base and target profiles of the README usage example
ReadmeBase == Profile(Num(22), Tenths(27), Num(12), Num(6), Num(14), Num(50))

ReadmeTarget == Profile(Num(48), Tenths(27), Num(12), Num(60), Num(40), Num(50))

\* ReadmeBase with more sulfate and less calcium
LowCalcium == Profile(Num(20), Tenths(27), Num(12), Num(60), Num(14), Num(50))

\* a profile whose calcium is not a number and whose magnesium is above the
\* validator's range
Unusable == Profile(NaN, Num(250), Num(12), Num(6), Num(14), Num(50))

Profiles == {ReadmeBase, ReadmeTarget, LowCalcium, Unusable}

\* volumes a caller may pass: two valid ones, zero, a negative one and NaN
Volumes == {Num(20), Num(10), Zero, Num(-5), NaN}

EntryPoints == {"optimizeWithQP", "optimizeSaltAdditions", "calculateWaterAdditions"}

NoValidation == [done |-> FALSE]

NoProblem == [built |-> FALSE]

NoResult == [returned |-> FALSE]

NoOutcome == [kind |-> "pending"]

VARIABLES
  pc,            \* where the current call stands
  entry,         \* the entry point the caller invoked
  volumeLiters,  \* the call's arguments
  baseProfile,
  targetProfile,
  validation,    \* what validateInputs returned, or NoValidation
  problem,       \* what buildQuadprogMatrices returned, or NoProblem
  qpResult,      \* what solveQP returned, or NoQPResult
  solverStatus,  \* how the solver behaved in this call
  solverCalls,   \* solveQP invocations in this call
  caught,        \* the error caught by optimizeWithQP's catch block, "" if none
  result,        \* what optimizeWithQP returned, or NoResult
  outcome,       \* what the entry point delivered to its caller
  calls          \* calls started so far

vars == <<BREWING_SALTS, ION_CONTRIBUTIONS, pc, entry, volumeLiters, baseProfile,
          targetProfile, validation, problem, qpResult, solverStatus, solverCalls, caught, result, outcome, calls>>

args == <<entry, volumeLiters, baseProfile, targetProfile>>

Init ==
  /\ BREWING_SALTS = BrewingSalts
  /\ ION_CONTRIBUTIONS = IonContributions(BrewingSalts)
  /\ pc = "idle"
  /\ entry = "optimizeWithQP"
  /\ volumeLiters = Num(20)
  /\ baseProfile = ReadmeBase
  /\ targetProfile = ReadmeBase
  /\ validation = NoValidation
  /\ problem = NoProblem
  /\ qpResult = NoQPResult
  /\ solverStatus = "not called"
  /\ solverCalls = 0
  /\ caught = ""
  /\ result = NoResult
  /\ outcome = NoOutcome
  /\ calls = 0

\* a caller invokes an entry point; nothing of an earlier call is kept
Call ==
  /\ pc \in {"idle", "done"}
  /\ calls < MaxCalls
  /\ \E e \in EntryPoints, v \in Volumes, b \in Profiles, t \in Profiles :
        /\ entry' = e
        /\ volumeLiters' = v
        /\ baseProfile' = b
        /\ targetProfile' = t
        /\ pc' = IF e = "calculateWaterAdditions" THEN "validate" ELSE "try"
  /\ validation' = NoValidation
  /\ problem' = NoProblem
  /\ qpResult' = NoQPResult
  /\ solverStatus' = "not called"
  /\ solverCalls' = 0
  /\ caught' = ""
  /\ result' = NoResult
  /\ outcome' = NoOutcome
  /\ calls' = calls + 1
  /\ UNCHANGED catalog

\* calculateWaterAdditions, step 1: validateInputs; on errors the failure is
\* returned at once, otherwise optimizeSaltAdditions is awaited
Validate ==
  /\ pc = "validate"
  /\ validation' = [done |-> TRUE,
                    value |-> validateInputs(volumeLiters, baseProfile, targetProfile)]
  /\ IF validateInputs(volumeLiters, baseProfile, targetProfile).valid
     THEN /\ pc' = "try"
          /\ UNCHANGED outcome
     ELSE /\ pc' = "done"
          /\ outcome' =
               [kind |-> "returned",
                value |-> ValidationFailure(
                            validateInputs(volumeLiters, baseProfile, targetProfile),
                            baseProfile)]
  /\ UNCHANGED <<catalog, args, problem, qpResult, solverStatus, solverCalls, caught,
                 result, calls>>

\* await import("quadprog") rejects: control passes to the catch block
ImportFails ==
  /\ pc = "try"
  /\ pc' = "catch"
  /\ caught' = "Cannot find package 'quadprog'"
  /\ UNCHANGED <<catalog, args, validation, problem, qpResult, solverStatus, solverCalls, result,
                 outcome, calls>>

\* the import resolves and buildQuadprogMatrices runs on the arguments
BuildMatrices ==
  /\ pc = "try"
  /\ pc' = "built"
  /\ problem' = buildQuadprogMatrices(volumeLiters, baseProfile, targetProfile)
  /\ UNCHANGED <<catalog, args, validation, qpResult, solverStatus, solverCalls, caught, result,
                 outcome, calls>>

\* solveQP(H, dvec, Amat, bvec, 0) returns a minimizer and no message
SolveQPOptimal ==
  /\ pc = "built"
  /\ \E x \in SolutionVectors :
        /\ IsMinimizer(problem.H, problem.dvec, problem.Amat, problem.bvec, x)
        /\ qpResult' = QPResult(x, "")
  /\ solverStatus' = "optimal"
  /\ solverCalls' = solverCalls + 1
  /\ pc' = "solved"
  /\ UNCHANGED <<catalog, args, validation, problem, caught, result, outcome, calls>>

\* solveQP reports a failure in its message; its solution array is still there
SolveQPFailure ==
  /\ pc = "built"
  /\ \E x \in SolutionVectors, m \in SolverMessages \ {""} :
        qpResult' = QPResult(x, m)
  /\ solverStatus' = "failure"
  /\ solverCalls' = solverCalls + 1
  /\ pc' = "solved"
  /\ UNCHANGED <<catalog, args, validation, problem, caught, result, outcome, calls>>

\* solveQP returns no message and an array that is not a minimizer of the
\* problem it was given (a nonconforming solver, or non-finite matrices)
SolveQPNonconforming ==
  /\ pc = "built"
  /\ \E x \in SolutionVectors :
        /\ ~IsMinimizer(problem.H, problem.dvec, problem.Amat, problem.bvec, x)
        /\ qpResult' = QPResult(x, "")
  /\ solverStatus' = "nonconforming"
  /\ solverCalls' = solverCalls + 1
  /\ pc' = "solved"
  /\ UNCHANGED <<catalog, args, validation, problem, caught, result, outcome, calls>>

\* solveQP returns nothing, or a result without a solution array
SolveQPNoSolution ==
  /\ pc = "built"
  /\ \/ qpResult' = NoQPResult
     \/ \E m \in SolverMessages : qpResult' = QPResultWithoutSolution(m)
  /\ solverStatus' = "no solution"
  /\ solverCalls' = solverCalls + 1
  /\ pc' = "solved"
  /\ UNCHANGED <<catalog, args, validation, problem, caught, result, outcome, calls>>

\* solveQP throws
SolveQPThrows ==
  /\ pc = "built"
  /\ solverStatus' = "threw"
  /\ solverCalls' = solverCalls + 1
  /\ caught' = "solveQP threw"
  /\ pc' = "catch"
  /\ UNCHANGED <<catalog, args, validation, problem, qpResult, result, outcome, calls>>

\* if (!result || !result.solution) throw new Error(...)
ThrowNoSolution ==
  /\ pc = "solved"
  /\ SolverGaveNoSolution(qpResult)
  /\ caught' = SolverFailedError(qpResult)
  /\ pc' = "catch"
  /\ UNCHANGED <<catalog, args, validation, problem, qpResult, solverStatus, solverCalls, result,
                 outcome, calls>>

\* MapSolution accumulating the contributions in the caller's baseProfile
\* object instead of a copy of it
MapSolution_InPlace ==
  /\ pc = "solved"
  /\ ~SolverGaveNoSolution(qpResult)
  /\ result' = [returned |-> TRUE,
                value |-> FeasibleResult(qpResult.solution, volumeLiters,
                                         baseProfile, targetProfile)]
  /\ baseProfile' = result'.value.calculatedProfile
  /\ pc' = "returned"
  /\ UNCHANGED <<catalog, entry, volumeLiters, targetProfile, validation, problem,
                 qpResult, solverStatus, solverCalls, caught, outcome, calls>>

\* the rest of the try block: extract, round, apply, return feasible: true
MapSolution ==
  /\ pc = "solved"
  /\ ~SolverGaveNoSolution(qpResult)
  /\ result' = [returned |-> TRUE,
                value |-> FeasibleResult(qpResult.solution, volumeLiters,
                                         baseProfile, targetProfile)]
  /\ pc' = "returned"
  /\ UNCHANGED <<catalog, args, validation, problem, qpResult, solverStatus, solverCalls, caught,
                 outcome, calls>>

\* a catch block that hands the same matrices to the solver once more
CatchInfeasible_Retry ==
  /\ pc = "catch"
  /\ pc' = "built"
  /\ UNCHANGED <<catalog, args, validation, problem, qpResult, solverStatus,
                 solverCalls, caught, result, outcome, calls>>

\* the catch block: log and return the infeasible result
CatchInfeasible ==
  /\ pc = "catch"
  /\ result' = [returned |-> TRUE,
                value |-> InfeasibleResult(baseProfile, targetProfile)]
  /\ pc' = "returned"
  /\ UNCHANGED <<catalog, args, validation, problem, qpResult, solverStatus, solverCalls, caught,
                 outcome, calls>>

\* optimizeWithQP called directly: its result goes to the caller
ReturnQP ==
  /\ pc = "returned"
  /\ entry = "optimizeWithQP"
  /\ outcome' = [kind |-> "returned", value |-> result.value]
  /\ pc' = "done"
  /\ UNCHANGED <<catalog, args, validation, problem, qpResult, solverStatus, solverCalls, caught,
                 result, calls>>

\* optimizeSaltAdditions without the feasibility test
optimizeSaltAdditions_NoThrow(r) ==
  [kind |-> "returned",
   value |-> [saltAdditions |-> r.saltAdditions,
              saltAdditionsDisplay |-> r.saltAdditionsDisplay,
              calculatedProfile |-> r.calculatedProfile,
              deviations |-> r.deviations,
              feasible |-> r.feasible,
              iterations |-> 1]]

\* what optimizeSaltAdditions does with the result of optimizeWithQP
optimizeSaltAdditions(r) ==
  IF ~r.feasible
  THEN [kind |-> "thrown",
        error |-> "Unable to find a feasible solution for the target water profile"]
  ELSE [kind |-> "returned",
        value |-> [saltAdditions |-> r.saltAdditions,
                   saltAdditionsDisplay |-> r.saltAdditionsDisplay,
                   calculatedProfile |-> r.calculatedProfile,
                   deviations |-> r.deviations,
                   feasible |-> r.feasible,
                   iterations |-> 1]]

\* optimizeSaltAdditions: throw when not feasible, else add iterations: 1
ReturnSaltAdditions ==
  /\ pc = "returned"
  /\ entry = "optimizeSaltAdditions"
  /\ outcome' = optimizeSaltAdditions(result.value)
  /\ pc' = "done"
  /\ UNCHANGED <<catalog, args, validation, problem, qpResult, solverStatus, solverCalls, caught,
                 result, calls>>

\* the rest of calculateWaterAdditions once optimizeSaltAdditions settles:
\* its error goes to the catch block, its value through steps 3 to 7
calculateWaterAdditions(settled, base_profile) ==
  IF settled.kind = "thrown"
  THEN CalculationFailure(settled.error, base_profile)
  ELSE SuccessResult(settled.value)

ReturnCalculator ==
  /\ pc = "returned"
  /\ entry = "calculateWaterAdditions"
  /\ outcome' = [kind |-> "returned",
                 value |-> calculateWaterAdditions(
                             optimizeSaltAdditions(result.value), baseProfile)]
  /\ pc' = "done"
  /\ UNCHANGED <<catalog, args, validation, problem, qpResult, solverStatus,
                 solverCalls, caught, result, calls>>

Next ==
  \/ Call
  \/ Validate
  \/ ImportFails
  \/ BuildMatrices
  \/ SolveQPOptimal
  \/ SolveQPFailure
  \/ SolveQPNonconforming
  \/ SolveQPNoSolution
  \/ SolveQPThrows
  \/ ThrowNoSolution
  \/ MapSolution
  \/ CatchInfeasible
  \/ ReturnQP
  \/ ReturnSaltAdditions
  \/ ReturnCalculator

Spec == Init /\ [][Next]_vars

----------------------------------------------------------------------------
(* Properties *)

Returned == result.returned

Feasible == result.value.feasible

ValidVolume == RGt(volumeLiters, Zero)

AllZero(additions) == \A n \in SaltNames : additions[n] = Zero

\* x < -1e-9: a negative number beyond the clamp tolerance of the design
BeyondTolerance(x) ==
  \/ (~IsFinite(x) /\ x.n < 0)
  \/ (IsFinite(x) /\ x.n < 0 /\ x.d \div (-x.n) < 1000000000)

WithinPpm(profile, target, ppm) ==
  \A ion \in IonSet : RLe(RAbs(RSub(profile[ion], target[ion])), Num(ppm))

\* the solver said the solve failed: a message, no solution, or an exception
SolverReportedFailure == solverStatus \in {"failure", "no solution", "threw"}

\* C1: whenever the solver reports that the solve failed, also when it still
\* hands back a solution array, optimizeWithQP returns feasible = false.
C1_FailureReportedIsInfeasible ==
  (Returned /\ SolverReportedFailure) => ~Feasible

\* C2: every result of optimizeWithQP tagged feasible = false has all five
\* quantities 0 (precise and display), the achieved profile equal to the base
\* profile, and the deviation equal to target - base on every ion.
C2_InfeasibleResultShape ==
  (Returned /\ ~Feasible) =>
     /\ AllZero(result.value.saltAdditions)
     /\ AllZero(result.value.saltAdditionsDisplay)
     /\ result.value.calculatedProfile = baseProfile
     /\ \A ion \in IonSet :
           result.value.deviations[ion] =
              RSub(targetProfile[ion], baseProfile[ion])

C2_Witness ==
  /\ Returned
  /\ ~Feasible
  /\ solverStatus = "no solution"
  /\ RGt(RSub(targetProfile.SO4, baseProfile.SO4), Zero)
  /\ result.value.deviations.SO4 = Num(54)

\* C3: an infeasible solve reaches the caller of either entry point as a
\* returned value whose feasibility field is false, never as an exception.
C3_InfeasibleIsReturnedValue ==
  (pc = "done" /\ entry \in {"optimizeWithQP", "optimizeSaltAdditions"}
     /\ ~Feasible) =>
     /\ outcome.kind = "returned"
     /\ outcome.value.feasible = FALSE

\* C4: with volume <= 0 the builder rejects the call before any matrix is
\* constructed and the solver is never invoked.
C4_NonPositiveVolumeRejected ==
  ~ValidVolume => (problem = NoProblem /\ solverCalls = 0)

\* C5: for valid inputs no component of the returned full-precision quantity
\* vector is more negative than the clamp tolerance 1e-9, whatever the solver
\* handed back.
C5_QuantitiesNonNegative ==
  (Returned /\ ValidVolume) =>
     \A n \in SaltNames : ~BeyondTolerance(result.value.saltAdditions[n])

\* base[ion] + sum over the additives of quantity * contribution / volume
Reapplied(ion) ==
  RAdd(baseProfile[ion],
       SumTo([k \in 1..Len(mapperSalts) |->
                RDiv(RMul(result.value.saltAdditions[mapperSalts[k].name],
                          ContributionOf(mapperSalts[k].ions, ion)),
                     volumeLiters)],
             Len(mapperSalts)))

\* C6: for every returned result, reapplying the returned full-precision
\* quantities to the base profile reproduces the reported calculatedProfile
\* on every ion (stated here for the calls with a positive volume).
C6_RoundTrip ==
  (Returned /\ ValidVolume) =>
     \A ion \in IonSet : result.value.calculatedProfile[ion] = Reapplied(ion)

MeaningfullyNegative(r) ==
  /\ r.defined
  /\ r.hasSolution
  /\ \E k \in 1..numSalts : BeyondTolerance(r.solution[k])

\* C7: a solver solution with a component more negative than 1e-9 is surfaced
\* as an error; the call never returns an ordinary feasible result for it.
C7_NegativeSolutionSurfaced ==
  (Returned /\ MeaningfullyNegative(qpResult)) => (caught # "" /\ ~Feasible)

ZeroSolution == Grams(0, 0, 0, 0, 0)

FiniteProfile(profile) == \A ion \in IonSet : IsFinite(profile[ion])

\* C8: for a valid volume and base = target, the constrained minimizer of the
\* built problem is the all-zero vector, and the result is feasible with all
\* quantities 0, achieved profile = base and deviation 0 on every ion.
C8_BaseEqualsTarget ==
  (ValidVolume /\ FiniteProfile(baseProfile) /\ baseProfile = targetProfile) =>
     /\ pc = "built" =>
           /\ IsMinimizer(problem.H, problem.dvec, problem.Amat, problem.bvec,
                          ZeroSolution)
           /\ \A x \in SolutionVectors :
                 IsMinimizer(problem.H, problem.dvec, problem.Amat,
                             problem.bvec, x) => x = ZeroSolution
     /\ (Returned /\ solverStatus = "optimal") =>
           /\ Feasible
           /\ AllZero(result.value.saltAdditions)
           /\ result.value.calculatedProfile = baseProfile
           /\ \A ion \in IonSet : result.value.deviations[ion] = Zero

C8_Witness ==
  /\ pc = "done"
  /\ solverStatus = "optimal"
  /\ ValidVolume
  /\ baseProfile = targetProfile
  /\ outcome.kind = "returned"
  /\ outcome.value.feasible

ReadmeScenario ==
  /\ volumeLiters = Num(20)
  /\ baseProfile = ReadmeBase
  /\ targetProfile = ReadmeTarget

NonNegative(additions) == \A n \in SaltNames : RGe(additions[n], Zero)

Contributors(ion) ==
  {k \in 1..Len(mapperSalts) : ion \in DOMAIN mapperSalts[k].ions}

TargetBelowBase(ion) == RLt(targetProfile[ion], baseProfile[ion])

QuantityOf(k) == result.value.saltAdditions[mapperSalts[k].name]

\* C10 as stated: whenever the target is below the base on some ion, the
\* result is feasible, every additive contributing to that ion has quantity
\* 0 and the deviation on that ion is the full gap base - target.
C10_ContributorsAreZero ==
  (ValidVolume /\ Returned /\ solverStatus = "optimal") =>
     \A ion \in IonSet :
        TargetBelowBase(ion) =>
           /\ Feasible
           /\ \A k \in Contributors(ion) : QuantityOf(k) = Zero
           /\ result.value.deviations[ion] =
                 RSub(baseProfile[ion], targetProfile[ion])

\* C10 as amended: whenever the target is below the base on some ion, the
\* result is feasible; an additive contributing to that ion has quantity 0
\* when none of the ions it contributes to needs to increase, and the
\* deviation on that ion is the full gap base - target when every additive
\* contributing to it has quantity 0.
C10_ContributorsZeroUnlessShared ==
  (ValidVolume /\ Returned /\ solverStatus = "optimal") =>
     \A ion \in IonSet :
        TargetBelowBase(ion) =>
           /\ Feasible
           /\ \A k \in Contributors(ion) :
                 (\A other \in DOMAIN mapperSalts[k].ions :
                     RLe(targetProfile[other], baseProfile[other]))
                    => QuantityOf(k) = Zero
           /\ (\A k \in Contributors(ion) : QuantityOf(k) = Zero)
                 => result.value.deviations[ion] =
                       RSub(baseProfile[ion], targetProfile[ion])

C10_Witness ==
  /\ pc = "done"
  /\ ValidVolume
  /\ solverStatus = "optimal"
  /\ TargetBelowBase("SO4")
  /\ result.value.saltAdditions["Epsom Salt (MgSO4)"] = Zero
  /\ RGt(result.value.saltAdditions["Calcium Chloride (CaCl2)"], Zero)
  /\ result.value.deviations.SO4 = Num(54)

\* a calculateWaterAdditions call has returned success: true
Succeeded ==
  /\ pc = "done"
  /\ entry = "calculateWaterAdditions"
  /\ outcome.value.success

\* C11: in a successful calculateWaterAdditions call the brewing analysis is
\* computed from the full-precision achieved profile, not from the rounded
\* display profile: its total hardness is the rounded sum of the
\* full-precision calcium and magnesium and its sulfate/chloride ratio is the
\* rounded ratio of the full-precision sulfate and chloride.
C11_AnalysisFromFullPrecision ==
  Succeeded =>
    /\ outcome.value.brewing_analysis.totalHardness =
         RoundTenth(totalHardness(result.value.calculatedProfile))
    /\ outcome.value.brewing_analysis.sulfateChlorideRatio.value =
         RoundHundredth(sulfateChlorideRatio(result.value.calculatedProfile).value)

\* C12: roundSmallAdditions is idempotent on every quantity vector a call
\* produces (full-precision and one-decimal, with negative components,
\* components below 0.1 and components on a rounding boundary), and applied
\* to the one-decimal saltAdditionsDisplay it changes no component that is
\* at least 0.1.
C12_RoundingIdempotent ==
  Returned =>
    /\ \A q \in {result.value.saltAdditions, result.value.saltAdditionsDisplay} :
          roundSmallAdditions(roundSmallAdditions(q)) = roundSmallAdditions(q)
    /\ \A n \in SaltNames :
          RGe(result.value.saltAdditionsDisplay[n], threshold) =>
            roundSmallAdditions(result.value.saltAdditionsDisplay)[n] =
              result.value.saltAdditionsDisplay[n]

\* a successful call whose full-precision quantities hold two values on a
\* rounding boundary (0.45 g and 0.05 g, below the threshold before rounding
\* and on it after) and a zero
C12_Witness ==
  /\ Succeeded
  /\ result.value.saltAdditions["Calcium Chloride (CaCl2)"] = R(45, 100)
  /\ result.value.saltAdditions["Table Salt (NaCl)"] = R(5, 100)
  /\ outcome.value.additions["Gypsum (CaSO4)"] = R(7, 10)
  /\ outcome.value.additions["Calcium Chloride (CaCl2)"] = R(5, 10)
  /\ outcome.value.additions["Table Salt (NaCl)"] = threshold
  /\ outcome.value.additions["Baking Soda (NaHCO3)"] = Zero

\* C13: within one call the solver is invoked at most once, on the matrices
\* built from the caller's arguments, and once the call has reached the
\* catch block its next step returns the infeasible result: no step invokes
\* the solver a second time.
C13_SingleSolverAttempt ==
  /\ [](pc = "built" =>
          problem = buildQuadprogMatrices(volumeLiters, baseProfile, targetProfile))
  /\ [][/\ (solverCalls' # solverCalls /\ calls' = calls) =>
            /\ solverCalls = 0
            /\ solverCalls' = 1
            /\ pc = "built"
            /\ UNCHANGED <<args, problem>>
       /\ pc = "catch" =>
            /\ pc' = "returned"
            /\ ~result'.value.feasible
            /\ solverCalls' = solverCalls]_vars

\* a call in which the solver was invoked once, failed, and the infeasible
\* result was returned
C13_Witness ==
  /\ pc = "returned"
  /\ solverCalls = 1
  /\ solverStatus \in {"no solution", "threw"}
  /\ ~result.value.feasible

\* a value outside [min, max], or not finite
OutOfRange(value, range) ==
  \/ ~IsFinite(value)
  \/ RLt(value, range.min)
  \/ RGt(value, range.max)

\* the fields of the current arguments that are not finite or out of range
ViolatedFields ==
  (IF OutOfRange(volumeLiters, VALIDATION_RANGES.volume) THEN {<<"volume">>} ELSE {})
    \cup {<<"base", ion>> : ion \in
            {i \in IonSet : OutOfRange(baseProfile[i], VALIDATION_RANGES.ions[i])}}
    \cup {<<"target", ion>> : ion \in
            {i \in IonSet : OutOfRange(targetProfile[i], VALIDATION_RANGES.ions[i])}}

\* C14: a calculateWaterAdditions call with a non-finite or out-of-range
\* volume or profile value ends at validateInputs: it returns success: false
\* with an error text made of one message for each violated field, naming
\* it, and neither buildQuadprogMatrices nor the solver is reached.
C14_InvalidInputRejected ==
  (entry = "calculateWaterAdditions" /\ validation.done /\ ViolatedFields # {}) =>
    /\ pc = "done"
    /\ ~outcome.value.success
    /\ {validation.value.errors[k].names :
          k \in 1..Len(validation.value.errors)} = ViolatedFields
    /\ outcome.value.error =
         "Input validation failed: "
           \o Join(validation.value.errors, Len(validation.value.errors))
    /\ problem = NoProblem
    /\ solverCalls = 0

\* a call rejected for its volume and for two values of its base profile
C14_Witness ==
  /\ entry = "calculateWaterAdditions"
  /\ pc = "done"
  /\ volumeLiters = Zero
  /\ baseProfile = Unusable
  /\ targetProfile = ReadmeTarget
  /\ ViolatedFields = {<<"volume">>, <<"base", "Ca">>, <<"base", "Mg">>}
  /\ outcome.value.error =
       "Input validation failed: volume must be positive, "
         \o "base profile: Ca must be a valid number, "
         \o "base profile: Mg must be between 0 and 200 ppm"

\* the vector with a at position i, b at position j and 0 elsewhere
Pair(i, a, j, b) ==
  [k \in 1..5 |-> IF k = i THEN Num(a) ELSE IF k = j THEN Num(b) ELSE Zero]

\* quantity vectors over the five additives: 0, e_i, -e_i and e_i + e_j,
\* which determine a quadratic function of five variables, and 1 g of each
TestVectors ==
  {Pair(i, a, i, a) : i \in 1..5, a \in {-1, 0, 1}}
    \cup {Pair(i, 1, j, 1) : i \in 1..5, j \in 1..5}
    \cup {[k \in 1..5 |-> Num(1)]}

\* the directions in which a symmetric matrix is most easily indefinite:
\* e_i - e_j, and alternating signs over all five
MixedSignVectors ==
  {Pair(i, 1, j, -1) : i \in 1..5, j \in 1..5}
    \cup {[k \in 1..5 |-> IF k % 2 = 1 THEN Num(1) ELSE Num(-1)]}

\* x^T H x over the indices 1..5
QuadraticForm(H, x) ==
  SumTo([i \in 1..5 |->
           RMul(x[i], SumTo([j \in 1..5 |-> RMul(H[i][j], x[j])], 5))], 5)

\* C15: for a volume > 0 the matrix H built by buildQuadprogMatrices is
\* symmetric over the indices 1..5 and x^T H x >= 0 for every test vector x,
\* mixed-sign ones included.
C15_SymmetricPSD ==
  (pc = "built" /\ ValidVolume) =>
    /\ \A i \in 1..5, j \in 1..5 : problem.H[i][j] = problem.H[j][i]
    /\ \A x \in TestVectors \cup MixedSignVectors :
          RGe(QuadraticForm(problem.H, x), Zero)

\* matrices built for 20 l: the gypsum/Epsom entry (shared sulfate) is
\* positive on both sides of the diagonal
C15_Witness ==
  /\ pc = "built"
  /\ volumeLiters = Num(20)
  /\ RGt(problem.H[1][3], Zero)
  /\ problem.H[3][1] = problem.H[1][3]
  /\ RGt(QuadraticForm(problem.H, [k \in 1..5 |-> IF k % 2 = 1 THEN Num(1) ELSE Num(-1)]),
         Zero)

\* 1/2 x^T H x - dvec^T x
SolverObjective(H, dvec, x) ==
  RSub(RMul(R(1, 2), QuadraticForm(H, x)),
       SumTo([i \in 1..5 |-> RMul(dvec[i], x[i])], 5))

\* the sum over the six ions of (A x - needed)^2
SquaredError(A, needed, x) ==
  SumTo([k \in 1..6 |->
           RMul(RSub(SumTo([j \in 1..5 |-> RMul(A[k][j], x[j])], 5), needed[k]),
                RSub(SumTo([j \in 1..5 |-> RMul(A[k][j], x[j])], 5), needed[k]))],
        6)

FiniteNeeded == \A k \in 1..6 : IsFinite(problem.needed[k])

\* C16: with H and dvec as built, for every test vector x the solver's
\* objective 1/2 x^T H x - dvec^T x equals |A x - needed|^2 - |needed|^2.
C16_LeastSquaresObjective ==
  (pc = "built" /\ ValidVolume /\ FiniteNeeded) =>
    \A x \in TestVectors :
       SolverObjective(problem.H, problem.dvec, x) =
         RSub(SquaredError(problem.A, problem.needed, x),
              SquaredError(problem.A, problem.needed, [k \in 1..5 |-> Zero]))

\* the README problem built: the objective at 1 g of each additive is finite
\* and differs from the squared error by |needed|^2 = 26^2 + 54^2 + 26^2
C16_Witness ==
  /\ pc = "built"
  /\ ReadmeScenario
  /\ SquaredError(problem.A, problem.needed, [k \in 1..5 |-> Zero]) = Num(4268)
  /\ RSub(SquaredError(problem.A, problem.needed, [k \in 1..5 |-> Num(1)]),
          SolverObjective(problem.H, problem.dvec, [k \in 1..5 |-> Num(1)]))
       = Num(4268)

\* the catalog contribution of additive j to an ion, 0 when it has none
CatalogContribution(j, ion) ==
  IF ion \in DOMAIN BREWING_SALTS[j].contributions
  THEN BREWING_SALTS[j].contributions[ion]
  ELSE Zero

\* C17: the contribution matrix has rows 0..6 and columns 0..5; row i >= 1
\* is the i-th tracked ion, column j >= 1 the j-th catalog additive, and the
\* entry is the additive's catalog contribution to the ion divided by the
\* volume, or 0 when it has none; row 0 and column 0 are 0.
C17_ContributionMatrixShape ==
  pc = "built" =>
    /\ DOMAIN problem.A = 0..6
    /\ \A i \in 0..6 : DOMAIN problem.A[i] = 0..5
    /\ Len(BREWING_SALTS) = 5
    /\ \A i \in 1..6, j \in 1..5 :
          problem.A[i][j] =
            IF CatalogContribution(j, ions[i]) = Zero THEN Zero
            ELSE RDiv(CatalogContribution(j, ions[i]), volumeLiters)
    /\ \A i \in 0..6 : problem.A[i][0] = Zero
    /\ \A j \in 0..5 : problem.A[0][j] = Zero

\* matrices built for 20 l: gypsum gives 557.9 / 20 ppm of sulfate per gram
\* and no magnesium
C17_Witness ==
  /\ pc = "built"
  /\ volumeLiters = Num(20)
  /\ problem.A[4][1] = R(5579, 200)
  /\ problem.A[2][1] = Zero
  /\ problem.A[6][5] = R(7264, 200)

\* C18: in a successful calculateWaterAdditions call each displayed addition
\* is the full-precision quantity rounded to one decimal, or exactly 0 when
\* that rounded value is below 0.1; so it is never negative and never
\* strictly between 0 and 0.1.
C18_DisplayedAdditions ==
  Succeeded =>
    \A n \in SaltNames :
       /\ outcome.value.additions[n] =
            IF RLt(RoundTenth(result.value.saltAdditions[n]), R(1, 10))
            THEN Zero
            ELSE RoundTenth(result.value.saltAdditions[n])
       /\ RGe(outcome.value.additions[n], Zero)
       /\ ~(/\ RGt(outcome.value.additions[n], Zero)
            /\ RLt(outcome.value.additions[n], R(1, 10)))

\* a successful call with 0.34, 0.22, 0.19, 0.03 and 0 g: displayed as 0.3,
\* 0.2, 0.2, 0 and 0
C18_Witness ==
  /\ Succeeded
  /\ result.value.saltAdditions["Epsom Salt (MgSO4)"] = R(19, 100)
  /\ result.value.saltAdditions["Table Salt (NaCl)"] = R(3, 100)
  /\ outcome.value.additions["Gypsum (CaSO4)"] = R(3, 10)
  /\ outcome.value.additions["Epsom Salt (MgSO4)"] = R(2, 10)
  /\ outcome.value.additions["Table Salt (NaCl)"] = Zero

\* C19: the catalog always holds the values it was loaded with; no step of
\* a call changes the caller's volume, base profile or target profile; and
\* a new call starts with none of the previous call's validation, matrices,
\* solver result, caught error, result or outcome.
C19_CallsAreIndependent ==
  /\ [](/\ BREWING_SALTS = BrewingSalts
        /\ ION_CONTRIBUTIONS = IonContributions(BrewingSalts))
  /\ [][IF calls' = calls
        THEN UNCHANGED <<volumeLiters, baseProfile, targetProfile>>
        ELSE /\ validation' = NoValidation
             /\ problem' = NoProblem
             /\ qpResult' = NoQPResult
             /\ solverCalls' = 0
             /\ caught' = ""
             /\ result' = NoResult
             /\ outcome' = NoOutcome]_vars

\* a second call has ended with an achieved profile that differs from the
\* base profile, which still is the caller's
C19_Witness ==
  /\ pc = "done"
  /\ calls = 2
  /\ Returned
  /\ Feasible
  /\ baseProfile = ReadmeBase
  /\ result.value.calculatedProfile # baseProfile
  /\ BREWING_SALTS = BrewingSalts

\* the achieved value of an ion from the catalog: the base value plus, for
\* each additive k in order with a positive quantity at solver position k, its
\* catalog contribution times that quantity over the volume
RECURSIVE AchievedTo(_, _)
AchievedTo(ion, k) ==
  IF k = 0 THEN baseProfile[ion]
  ELSE IF /\ RGt(OrZero(qpResult.solution[k]), Zero)
          /\ RGt(CatalogContribution(k, ion), Zero)
       THEN RAdd(AchievedTo(ion, k - 1),
                 RDiv(RMul(CatalogContribution(k, ion), OrZero(qpResult.solution[k])),
                      volumeLiters))
       ELSE AchievedTo(ion, k - 1)

\* C20: when optimizeWithQP has mapped a solution, column k of the
\* contribution matrix holds the contributions of the k-th catalog additive,
\* solution component k is reported under that additive's name, the achieved
\* profile applies it with that additive's contributions, and the result
\* does not depend on position 0 of the solver's array.
C20_OrderingConsistent ==
  (pc = "returned" /\ Feasible) =>
    /\ \A k \in 1..5 :
          /\ \A i \in 1..6 :
                problem.A[i][k] =
                  IF CatalogContribution(k, ions[i]) = Zero THEN Zero
                  ELSE RDiv(CatalogContribution(k, ions[i]), volumeLiters)
          /\ result.value.saltAdditions[BREWING_SALTS[k].name] =
               OrZero(qpResult.solution[k])
    /\ \A ion \in IonSet : result.value.calculatedProfile[ion] = AchievedTo(ion, 5)
    /\ FeasibleResult([qpResult.solution EXCEPT ![0] = Num(1)], volumeLiters,
                      baseProfile, targetProfile) = result.value

\* the README problem mapped from the minimizer 1.37, 0.90, 0.76, 0.10, 0 g
C20_Witness ==
  /\ pc = "returned"
  /\ Feasible
  /\ ReadmeScenario
  /\ qpResult.solution[1] = R(137, 100)
  /\ qpResult.solution[4] = R(10, 100)
  /\ result.value.saltAdditions["Gypsum (CaSO4)"] = R(137, 100)
  /\ result.value.saltAdditions["Table Salt (NaCl)"] = R(10, 100)
  /\ result.value.calculatedProfile.Mg = RAdd(Tenths(27), RDiv(RMul(Tenths(986), R(76, 100)), Num(20)))

\* a calculateWaterAdditions call has delivered its result
CalculatorDone == pc = "done" /\ entry = "calculateWaterAdditions"

\* C21: a calculateWaterAdditions result with success = false carries an
\* error message, five additions equal to 0, the caller's base profile as
\* calculated_profile, six deviations equal to 0 and total_salt_weight 0;
\* a result with success = true comes only from a call whose validation
\* passed and whose optimizer result was feasible.
C21_FailureShape ==
  CalculatorDone =>
    IF outcome.value.success
    THEN /\ validation.value.valid
         /\ Returned
         /\ Feasible
    ELSE /\ outcome.value.error # ""
         /\ \A n \in SaltNames : outcome.value.additions[n] = Zero
         /\ outcome.value.calculated_profile = baseProfile
         /\ \A ion \in IonSet : outcome.value.deviations[ion] = Zero
         /\ outcome.value.total_salt_weight = Zero

\* the README call ended success: false because the solver gave no solution:
\* the deviations are reported as 0 although target and base differ
C21_Witness ==
  /\ CalculatorDone
  /\ ReadmeScenario
  /\ solverStatus = "no solution"
  /\ ~outcome.value.success
  /\ outcome.value.error =
       "Calculation error: Unable to find a feasible solution for the target water profile"
  /\ outcome.value.calculated_profile = ReadmeBase
  /\ outcome.value.deviations.SO4 = Zero

====
